---- MODULE Spec2Model ----
(***************************************************************************)
(* PipeCutMaster: the cutting-stock optimizer (server/optimization.ts) and *)
(* the metrics derived from its result.                                    *)
(*                                                                         *)
(* Lengths are fixed-point numbers: integers counting hundredths of a      *)
(* metre (UnitsPerMeter).  The kerf width is given in millimetres and is   *)
(* converted as the code does, by dividing by 1000.  Quotients (the        *)
(* efficiencies) are exact fractions num/den kept in lowest terms; a       *)
(* fraction whose den is 0 is the non-finite result of a division by zero  *)
(* (num = 0: NaN, otherwise an infinity).                                  *)
(***************************************************************************)
EXTENDS Integers, Sequences, FiniteSets, Bags, TLC

\* ---- bounds of the model ------------------------------------------------
MaxStockLength == 4
MaxPieceLength == 5
MaxStockCount == 2
MaxPieces == 3
MaxKerfSteps == 1
MaxCalls == 2
MaxPatterns == 3
MaxUsers == 2
MaxSubscriptions == 2

\* ---- units ----------------------------------------------------------------
UnitsPerMeter == 100
MillimetersPerMeter == 1000
\* the kerf widths offered: whole multiples of one length unit, in millimetres
KerfStepMm == MillimetersPerMeter \div UnitsPerMeter

VARIABLES
    stockPipe,            \* StockPipe: [length, kerfWidth (mm), count]
    requirements,         \* CuttingRequirement[]: sequence of [length, quantity]
    pc,                   \* "idle", "rejected", "created", "loop", "returned", "threw",
                          \* "stored", "done"
    calls,                \* number of invocations of optimize so far
    pieces,               \* optimize: pieces (expanded, sorted)
    i,                    \* optimize: index of the outer loop (0-based)
    bins,                 \* optimize: bins
    binRemainingLengths,  \* optimize: binRemainingLengths
    binSegments,          \* optimize: binSegments
    stopped,              \* optimize: the warn/break branch was taken
    patterns,             \* optimize: patterns (the value returned)
    metrics,              \* the value returned by calculateMetrics
    runs,                 \* log of the completed invocations, in order
    storage,              \* MemStorage: the tables and their id counters
    job,                  \* POST /api/optimize: the job created for the request
    retrieved,            \* GET /api/jobs/:id: the last response
    body,                 \* POST /api/optimize: the requirements of the request body
    response,             \* POST /api/optimize: the status answered (0: none yet)
    handlers,             \* the requests that are storing their entities, await by await
    users,                \* the users table
    stripe,               \* Stripe: its customers, subscriptions and undelivered events
    handled               \* the webhook events handled so far

vars == <<stockPipe, requirements, pc, calls, pieces, i, bins,
          binRemainingLengths, binSegments, stopped, patterns, metrics, runs,
          storage, job, retrieved, body, response, handlers, users, stripe, handled>>

\* ---- exact fractions ------------------------------------------------------
Abs(n) == IF n < 0 THEN -n ELSE n

Sign(n) == IF n < 0 THEN -1 ELSE IF n > 0 THEN 1 ELSE 0

RECURSIVE GCD(_, _)
GCD(a, b) == IF b = 0 THEN a ELSE GCD(b, a % b)

\* the number n / d
Divide(n, d) ==
    IF d = 0
    THEN [num |-> Sign(n), den |-> 0]
    ELSE LET g == GCD(Abs(n), Abs(d))
         IN  [num |-> (Sign(d) * n) \div g, den |-> Abs(d) \div g]

Times(q, k) == Divide(q.num * k, q.den)

IsFinite(q) == q.den # 0

IsNaN(q) == q.den = 0 /\ q.num = 0

Zero == Divide(0, 1)

\* ---- the inputs -----------------------------------------------------------
StockPipes ==
    [length : {MaxStockLength},
     kerfWidth : {k * KerfStepMm : k \in 0..MaxKerfSteps},
     count : 1..MaxStockCount]

\* the requirement lists that ask for at most n pieces in all
RECURSIVE RequirementListsUpTo(_)
RequirementListsUpTo(n) ==
    {<<>>} \cup
    UNION {{<<[length |-> l, quantity |-> q]>> \o rest :
               l \in 1..MaxPieceLength, rest \in RequirementListsUpTo(n - q)} :
           q \in 1..n}

RequirementLists == RequirementListsUpTo(MaxPieces)

\* ---- optimize: expansion and sort ----------------------------------------
RECURSIVE RepeatInclusive(_, _)
RepeatInclusive(x, n) == IF n < 0 THEN <<>> ELSE <<x>> \o RepeatInclusive(x, n - 1)

RECURSIVE Repeat(_, _)
Repeat(x, n) == IF n <= 0 THEN <<>> ELSE <<x>> \o Repeat(x, n - 1)

RECURSIVE ExpandFrom(_, _)
ExpandFrom(reqs, k) ==
    IF k > Len(reqs) THEN <<>>
    ELSE Repeat(reqs[k].length, reqs[k].quantity) \o ExpandFrom(reqs, k + 1)

RECURSIVE ExpandOnePerRequirementFrom(_, _)
ExpandOnePerRequirementFrom(reqs, k) ==
    IF k > Len(reqs) THEN <<>>
    ELSE <<reqs[k].length>> \o ExpandOnePerRequirementFrom(reqs, k + 1)

ExpandOnePerRequirement(reqs) == ExpandOnePerRequirementFrom(reqs, 1)

Expand(reqs) == ExpandFrom(reqs, 1)

\* stable insertion of x into a sequence sorted in decreasing order
RECURSIVE InsertDecreasing(_, _)
InsertDecreasing(x, s) ==
    IF s = <<>> THEN <<x>>
    ELSE IF Head(s) - x < 0 THEN <<x>> \o s
    ELSE <<Head(s)>> \o InsertDecreasing(x, Tail(s))

RECURSIVE SortDecreasingFrom(_, _)
SortDecreasingFrom(s, k) ==
    IF k = 0 THEN <<>>
    ELSE InsertDecreasing(s[k], SortDecreasingFrom(s, k - 1))

SortDecreasingNone(s) == s

SortDecreasing(s) == SortDecreasingFrom(s, Len(s))

\* ---- optimize: the locals -------------------------------------------------
stockLength == stockPipe.length

kerfWidthMeters == (stockPipe.kerfWidth * UnitsPerMeter) \div MillimetersPerMeter

maxStockCount == stockPipe.count

InitialBins == <<>>

InitialPatternsStale == patterns

InitialPatterns == <<>>

pieceLengthFromEnd == pieces[Len(pieces) - i]

pieceLength == pieces[i + 1]

kerfNeededNone(j) == 0

kerfNeeded(j) == IF Len(bins[j]) > 0 THEN kerfWidthMeters ELSE 0

FitsStrict(j) == binRemainingLengths[j] > pieceLength + kerfNeeded(j)

FitsNoKerf(j) == binRemainingLengths[j] >= pieceLength

Fits(j) == binRemainingLengths[j] >= pieceLength + kerfNeeded(j)

currentPositionFromRemaining(j) == binRemainingLengths[j]

\* where the used part of bin j ends
currentPosition(j) == stockLength - binRemainingLengths[j]

segmentPositionNoKerf(j) == currentPosition(j)

\* where the piece placed in bin j begins
segmentPosition(j) == currentPosition(j) + kerfNeeded(j)

\* the bins that pass the test of the inner loop
FittingBins == {j \in 1..Len(bins) : Fits(j)}

FirstFitLast == CHOOSE j \in FittingBins : \A k \in FittingBins : j >= k

\* the bin at which the inner loop breaks
FirstFit == CHOOSE j \in FittingBins : \A k \in FittingBins : j <= k

CanOpenBinUncapped == TRUE

CanOpenBinOffByOne == Len(bins) <= maxStockCount

CanOpenBin == Len(bins) < maxStockCount

\* ---- the storage ----------------------------------------------------------
\* a table is the sequence of its rows in insertion order (the order in which
\* Map.values() yields them)
EmptyStorage ==
    [stockPipes |-> <<>>, currentStockPipeId |-> 1,
     jobs |-> <<>>, currentJobId |-> 1,
     cuttingRequirements |-> <<>>, currentCuttingRequirementId |-> 1,
     cuttingPatterns |-> <<>>, currentCuttingPatternId |-> 1,
     cuttingSegments |-> <<>>, currentCuttingSegmentId |-> 1]

NoJob == [id |-> 0, stockPipeId |-> 0]

NoResponse == [status |-> 0]

\* the row of a table with the given id, in a set (empty when there is none)
RowsWithId(table, id) == {table[n] : n \in {x \in 1..Len(table) : table[x].id = id}}

createStockPipe(st, insertStockPipe) ==
    LET id == st.currentStockPipeId
    IN  [st EXCEPT !.currentStockPipeId = id + 1,
                   !.stockPipes = Append(@, [id |-> id,
                                             length |-> insertStockPipe.length,
                                             kerfWidth |-> insertStockPipe.kerfWidth,
                                             count |-> insertStockPipe.count])]

createJob(st, insertJob) ==
    LET id == st.currentJobId
    IN  [st EXCEPT !.currentJobId = id + 1,
                   !.jobs = Append(@, [id |-> id, stockPipeId |-> insertJob.stockPipeId])]

createCuttingRequirement(st, insertRequirement) ==
    LET id == st.currentCuttingRequirementId
    IN  [st EXCEPT !.currentCuttingRequirementId = id + 1,
                   !.cuttingRequirements =
                       Append(@, [id |-> id,
                                  length |-> insertRequirement.length,
                                  quantity |-> insertRequirement.quantity,
                                  jobId |-> insertRequirement.jobId])]

createCuttingPattern(st, insertPattern) ==
    LET id == st.currentCuttingPatternId
    IN  [st EXCEPT !.currentCuttingPatternId = id + 1,
                   !.cuttingPatterns =
                       Append(@, [id |-> id,
                                  jobId |-> insertPattern.jobId,
                                  stockPipeIndex |-> insertPattern.stockPipeIndex,
                                  efficiency |-> insertPattern.efficiency,
                                  waste |-> insertPattern.waste])]

createCuttingSegment(st, insertSegment) ==
    LET id == st.currentCuttingSegmentId
    IN  [st EXCEPT !.currentCuttingSegmentId = id + 1,
                   !.cuttingSegments =
                       Append(@, [id |-> id,
                                  patternId |-> insertSegment.patternId,
                                  length |-> insertSegment.length,
                                  position |-> insertSegment.position,
                                  isWaste |-> insertSegment.isWaste])]

getCuttingPatternsByJobId(st, jobId) ==
    LET OfJob(pattern) == pattern.jobId = jobId
    IN  SelectSeq(st.cuttingPatterns, OfJob)

getCuttingSegmentsByPatternId(st, patternId) ==
    LET OfPattern(segment) == segment.patternId = patternId
    IN  SelectSeq(st.cuttingSegments, OfPattern)

\* ---- the request body and its schema --------------------------------------
\* a quantity is a number of the body: the fraction num/den
IsInteger(q) == q.den = 1

ValidRequirementNoMinimum(r) ==
    /\ r.length * 100 >= UnitsPerMeter
    /\ IsInteger(r.quantity)

\* length: z.number().min(0.01), quantity: z.number().int().min(1)
ValidRequirement(r) ==
    /\ r.length * 100 >= UnitsPerMeter
    /\ IsInteger(r.quantity) /\ r.quantity.num >= 1

ValidRequirements(b) == \A k \in 1..Len(b) : ValidRequirement(b[k])

\* the requirements that optimizationRequestSchema.parse returns for a valid body
Parse(b) == [k \in 1..Len(b) |-> [length |-> b[k].length, quantity |-> b[k].quantity.num]]

\* the body that carries the given requirements
BodyOf(reqs) ==
    [k \in 1..Len(reqs) |->
        [length |-> reqs[k].length, quantity |-> Divide(reqs[k].quantity, 1)]]

\* requirements that the schema refuses: a length below 0.01, a quantity below
\* 1, a quantity that is no integer
RefusedRequirements ==
    {[length |-> 0, quantity |-> Divide(1, 1)],
     [length |-> 1, quantity |-> Divide(0, 1)],
     [length |-> 1, quantity |-> Divide(-1, 1)],
     [length |-> 1, quantity |-> Divide(3, 2)]}

\* bodies with a refused requirement alone, before or after a valid one
RefusedBodies ==
    {<<bad>> : bad \in RefusedRequirements}
        \cup {<<bad>> \o BodyOf(reqs) :
                  bad \in RefusedRequirements, reqs \in RequirementListsUpTo(1) \ {<<>>}}
        \cup {BodyOf(reqs) \o <<bad>> :
                  bad \in RefusedRequirements, reqs \in RequirementListsUpTo(1) \ {<<>>}}

Bodies == {BodyOf(reqs) : reqs \in RequirementLists} \cup RefusedBodies

NoStripe == [customers |-> <<>>, subscriptions |-> <<>>, events |-> {}]

\* ---- the invocation -------------------------------------------------------
Init ==
    /\ stockPipe \in StockPipes
    /\ requirements = <<>>
    /\ pc = "idle"
    /\ calls = 0
    /\ pieces = <<>>
    /\ i = 0
    /\ bins = <<>>
    /\ binRemainingLengths = <<>>
    /\ binSegments = <<>>
    /\ stopped = FALSE
    /\ patterns = <<>>
    /\ metrics = [efficiency |-> Zero, stockUsed |-> 0, stockTotal |-> 0, wasteTotal |-> 0]
    /\ runs = <<>>
    /\ storage = EmptyStorage
    /\ job = NoJob
    /\ retrieved = NoResponse
    /\ body \in Bodies
    /\ response = 0
    /\ handlers = <<>>
    /\ users = <<>>
    /\ stripe = NoStripe
    /\ handled = {}

\* the requirements of the request are stored one after the other
RECURSIVE StoreRequirements(_, _, _, _)
StoreRequirements(st, reqs, jobId, k) ==
    IF k > Len(reqs) THEN st
    ELSE StoreRequirements(
             createCuttingRequirement(st, [length |-> reqs[k].length,
                                           quantity |-> reqs[k].quantity,
                                           jobId |-> jobId]),
             reqs, jobId, k + 1)

\* POST /api/optimize, up to the call of optimize: the body passes the schema,
\* the stock pipe, the job and the requirements are stored
CreateJob ==
    /\ pc = "idle"
    /\ ValidRequirements(body)
    /\ requirements' = Parse(body)
    /\ LET stockPipeId == storage.currentStockPipeId
           jobId == storage.currentJobId
           st1 == createStockPipe(storage, stockPipe)
           st2 == createJob(st1, [stockPipeId |-> stockPipeId])
       IN  /\ job' = [id |-> jobId, stockPipeId |-> stockPipeId]
           /\ storage' = StoreRequirements(st2, requirements', jobId, 1)
    /\ pc' = "created"
    /\ UNCHANGED <<stockPipe, calls, pieces, i, bins, binRemainingLengths,
                   binSegments, stopped, patterns, metrics, runs, retrieved, body, response>>
    /\ UNCHANGED <<handlers, users, stripe, handled>>

\* POST /api/optimize: the body fails the schema, parse throws a ZodError and
\* the catch block answers 400
RejectRequest ==
    /\ pc = "idle"
    /\ ~ValidRequirements(body)
    /\ response' = 400
    /\ pc' = "rejected"
    /\ UNCHANGED <<stockPipe, requirements, calls, pieces, i, bins, binRemainingLengths,
                   binSegments, stopped, patterns, metrics, runs, storage, job, retrieved,
                   body>>
    /\ UNCHANGED <<handlers, users, stripe, handled>>

\* optimize is entered: the pieces are expanded and sorted, the bins are empty
Start ==
    /\ pc = "created"
    /\ pc' = "loop"
    /\ calls' = calls + 1
    /\ pieces' = SortDecreasing(Expand(requirements))
    /\ i' = 0
    /\ bins' = InitialBins
    /\ binRemainingLengths' = <<>>
    /\ binSegments' = <<>>
    /\ stopped' = FALSE
    /\ UNCHANGED <<stockPipe, requirements, patterns, metrics, runs>>
    /\ UNCHANGED <<storage, job, retrieved, body, response>>
    /\ UNCHANGED <<handlers, users, stripe, handled>>

\* one iteration of the outer loop: the piece goes into the first bin that fits
PlaceInBin ==
    /\ pc = "loop" /\ ~stopped /\ i < Len(pieces)
    /\ FittingBins # {}
    /\ LET j == FirstFit
       IN  /\ bins' = [bins EXCEPT ![j] = Append(@, pieceLength)]
           /\ binRemainingLengths' =
                 [binRemainingLengths EXCEPT ![j] = @ - (pieceLength + kerfNeeded(j))]
           /\ binSegments' =
                 [binSegments EXCEPT ![j] =
                     Append(@, [length |-> pieceLength,
                                position |-> segmentPosition(j),
                                isWaste |-> FALSE])]
    /\ i' = i + 1
    /\ UNCHANGED <<stockPipe, requirements, pc, calls, pieces, stopped,
                   patterns, metrics, runs>>
    /\ UNCHANGED <<storage, job, retrieved, body, response>>
    /\ UNCHANGED <<handlers, users, stripe, handled>>

OpenNewBinEmpty ==
    /\ pc = "loop" /\ ~stopped /\ i < Len(pieces)
    /\ FittingBins = {}
    /\ CanOpenBin
    /\ bins' = Append(bins, <<>>)
    /\ binRemainingLengths' = Append(binRemainingLengths, stockLength)
    /\ binSegments' = Append(binSegments, <<>>)
    /\ UNCHANGED <<stockPipe, requirements, pc, calls, pieces, i, stopped,
                   patterns, metrics, runs>>
    /\ UNCHANGED <<storage, job, retrieved, body, response>>
    /\ UNCHANGED <<handlers, users, stripe, handled>>

\* one iteration of the outer loop: no bin fits and a new bin is created
OpenNewBin ==
    /\ pc = "loop" /\ ~stopped /\ i < Len(pieces)
    /\ FittingBins = {}
    /\ CanOpenBin
    /\ bins' = Append(bins, <<pieceLength>>)
    /\ binRemainingLengths' = Append(binRemainingLengths, stockLength - pieceLength)
    /\ binSegments' =
          Append(binSegments, <<[length |-> pieceLength, position |-> 0, isWaste |-> FALSE]>>)
    /\ i' = i + 1
    /\ UNCHANGED <<stockPipe, requirements, pc, calls, pieces, stopped,
                   patterns, metrics, runs>>
    /\ UNCHANGED <<storage, job, retrieved, body, response>>
    /\ UNCHANGED <<handlers, users, stripe, handled>>

CannotPlaceContinue ==
    /\ pc = "loop" /\ ~stopped /\ i < Len(pieces)
    /\ FittingBins = {}
    /\ ~CanOpenBin
    /\ i' = i + 1
    /\ UNCHANGED <<stockPipe, requirements, pc, calls, pieces, stopped, bins,
                   binRemainingLengths, binSegments, patterns, metrics, runs>>
    /\ UNCHANGED <<storage, job, retrieved, body, response>>
    /\ UNCHANGED <<handlers, users, stripe, handled>>

\* one iteration of the outer loop: the piece cannot be placed, warn and break
CannotPlace ==
    /\ pc = "loop" /\ ~stopped /\ i < Len(pieces)
    /\ FittingBins = {}
    /\ ~CanOpenBin
    /\ stopped' = TRUE
    /\ UNCHANGED <<stockPipe, requirements, pc, calls, pieces, i, bins,
                   binRemainingLengths, binSegments, patterns, metrics, runs>>
    /\ UNCHANGED <<storage, job, retrieved, body, response>>
    /\ UNCHANGED <<handlers, users, stripe, handled>>

\* ---- optimize: the final patterns ----------------------------------------
WastePositionNoLength(lastSegment) == lastSegment.position

WastePosition(lastSegment) == lastSegment.position + lastSegment.length

FinalSegmentsWasteUnmarked(k) ==
    LET segments == binSegments[k]
        remainingLength == binRemainingLengths[k]
    IN  IF remainingLength > 0
        THEN Append(segments, [length |-> remainingLength,
                               position |-> WastePosition(segments[Len(segments)]),
                               isWaste |-> FALSE])
        ELSE segments

FinalSegmentsZeroWaste(k) ==
    LET segments == binSegments[k]
        remainingLength == binRemainingLengths[k]
    IN  IF remainingLength >= 0
        THEN Append(segments, [length |-> remainingLength,
                               position |-> WastePosition(segments[Len(segments)]),
                               isWaste |-> TRUE])
        ELSE segments

\* the segments of bin k, with the leftover appended as waste
FinalSegments(k) ==
    LET segments == binSegments[k]
        remainingLength == binRemainingLengths[k]
    IN  IF remainingLength > 0
        THEN Append(segments, [length |-> remainingLength,
                               position |-> WastePosition(segments[Len(segments)]),
                               isWaste |-> TRUE])
        ELSE segments

Efficiency(usedLength) == Times(Divide(usedLength, stockLength), 100)

PatternZeroBased(k) ==
    LET remainingLength == binRemainingLengths[k]
        usedLength == stockLength - remainingLength
    IN  [stockPipeIndex |-> k - 1,
         efficiency |-> Efficiency(usedLength),
         waste |-> remainingLength,
         segments |-> FinalSegments(k)]

Pattern(k) ==
    LET remainingLength == binRemainingLengths[k]
        usedLength == stockLength - remainingLength
    IN  [stockPipeIndex |-> k,
         efficiency |-> Efficiency(usedLength),
         waste |-> remainingLength,
         segments |-> FinalSegments(k)]

\* reading lastSegment.position of a bin without segments is a TypeError
Throws == \E k \in 1..Len(bins) : binRemainingLengths[k] > 0 /\ Len(binSegments[k]) = 0

\* the outer loop is over (exhausted or broken off): build and return the patterns
Finalize ==
    /\ pc = "loop"
    /\ stopped \/ i >= Len(pieces)
    /\ IF Throws
       THEN /\ pc' = "threw"
            /\ response' = 500
            /\ UNCHANGED <<patterns, runs>>
       ELSE /\ pc' = "returned"
            /\ UNCHANGED response
            /\ patterns' = InitialPatterns \o [k \in 1..Len(bins) |-> Pattern(k)]
            /\ runs' = Append(runs, [stockPipe |-> stockPipe,
                                     requirements |-> requirements,
                                     patterns |-> patterns'])
    /\ UNCHANGED <<stockPipe, requirements, calls, pieces, i, bins,
                   binRemainingLengths, binSegments, stopped, metrics>>
    /\ UNCHANGED <<storage, job, retrieved, body>>
    /\ UNCHANGED <<handlers, users, stripe, handled>>

\* ---- createEntities and the storing of its result -------------------------
EncodeIsWasteInverted(isWaste) == IF isWaste THEN 0 ELSE 1

\* segment.isWaste ? 1 : 0
EncodeIsWaste(isWaste) == IF isWaste THEN 1 ELSE 0

\* Boolean(s.isWaste)
DecodeIsWaste(isWaste) == isWaste # 0

\* the segment entities of the patterns from the k-th on; the patternId of an
\* entity is the position of its pattern in the list
RECURSIVE SegmentEntitiesFrom(_, _)
SegmentEntitiesFrom(pats, k) ==
    IF k > Len(pats) THEN <<>>
    ELSE [s \in 1..Len(pats[k].segments) |->
             [patternId |-> k,
              length |-> pats[k].segments[s].length,
              position |-> pats[k].segments[s].position,
              isWaste |-> EncodeIsWaste(pats[k].segments[s].isWaste)]]
         \o SegmentEntitiesFrom(pats, k + 1)

createEntities(jb, pats) ==
    [patterns |-> [k \in 1..Len(pats) |->
                      [jobId |-> jb.id,
                       stockPipeIndex |-> pats[k].stockPipeIndex,
                       efficiency |-> pats[k].efficiency,
                       waste |-> pats[k].waste]],
     segments |-> SegmentEntitiesFrom(pats, 1)]

RECURSIVE StoreSegments(_, _, _)
StoreSegments(st, segs, n) ==
    IF n > Len(segs) THEN st
    ELSE StoreSegments(createCuttingSegment(st, segs[n]), segs, n + 1)

\* the loop that stores each pattern and then its segments under the id the
\* storage gave to the pattern
RECURSIVE StorePatterns(_, _, _)
StorePatterns(st, entities, k) ==
    IF k > Len(entities.patterns) THEN st
    ELSE LET patternId == st.currentCuttingPatternId
             st1 == createCuttingPattern(st, entities.patterns[k])
             OfPattern(s) == s.patternId = k
             patternSegments ==
                 LET own == SelectSeq(entities.segments, OfPattern)
                 IN  [n \in 1..Len(own) |-> [own[n] EXCEPT !.patternId = patternId]]
         IN  StorePatterns(StoreSegments(st1, patternSegments, 1), entities, k + 1)

\* POST /api/optimize after optimize returned: the entities are stored
StoreEntities ==
    /\ pc = "returned"
    /\ storage' = StorePatterns(storage, createEntities(job, patterns), 1)
    /\ pc' = "stored"
    /\ UNCHANGED <<stockPipe, requirements, calls, pieces, i, bins, binRemainingLengths,
                   binSegments, stopped, patterns, metrics, runs, job, retrieved,
                   body, response>>
    /\ UNCHANGED <<handlers, users, stripe, handled>>

\* ---- calculateMetrics -----------------------------------------------------
\* patterns.reduce((sum, pattern) => sum + pattern.waste, sum): a left fold
RECURSIVE ReduceWaste(_, _)
ReduceWaste(pats, sum) ==
    IF pats = <<>> THEN sum ELSE ReduceWaste(Tail(pats), sum + Head(pats).waste)

WasteTotalOffByOne(pats) == IF pats = <<>> THEN 0 ELSE ReduceWaste(Tail(pats), 0)

WasteTotal(pats) == ReduceWaste(pats, 0)

\* patterns.reduce((sum, pattern) => sum + (stockPipe.length - pattern.waste), sum)
RECURSIVE ReduceUsedLength(_, _, _)
ReduceUsedLength(sp, pats, sum) ==
    IF pats = <<>> THEN sum
    ELSE ReduceUsedLength(sp, Tail(pats), sum + (sp.length - Head(pats).waste))

TotalUsedLength(sp, pats) == ReduceUsedLength(sp, pats, 0)

\* the divisor taken from the stock count instead of the number of patterns
calculateMetricsOverCount(sp, pats) ==
    LET wasteTotal == WasteTotal(pats)
        totalUsedLength == TotalUsedLength(sp, pats)
        totalStockLength == sp.count * sp.length
    IN  [efficiency |-> Times(Divide(totalUsedLength, totalStockLength), 100),
         stockUsed |-> Len(pats),
         stockTotal |-> sp.count,
         wasteTotal |-> wasteTotal]

calculateMetrics(sp, pats) ==
    LET wasteTotal == WasteTotal(pats)
        totalUsedLength == TotalUsedLength(sp, pats)
        totalStockLength == Len(pats) * sp.length
    IN  [efficiency |-> Times(Divide(totalUsedLength, totalStockLength), 100),
         stockUsed |-> Len(pats),
         stockTotal |-> sp.count,
         wasteTotal |-> wasteTotal]

\* the caller derives the metrics from the patterns optimize returned
CalculateMetrics ==
    /\ pc = "stored"
    /\ metrics' = calculateMetrics(stockPipe, patterns)
    /\ response' = 200
    /\ pc' = "done"
    /\ UNCHANGED <<stockPipe, requirements, calls, pieces, i, bins,
                   binRemainingLengths, binSegments, stopped, patterns, runs>>
    /\ UNCHANGED <<storage, job, retrieved, body>>
    /\ UNCHANGED <<handlers, users, stripe, handled>>

\* the next request, with the same stock and the same requirements; the
\* response to the last retrieval is gone
NextRequest ==
    /\ pc \in {"done", "rejected"}
    /\ calls < MaxCalls
    /\ pc' = "idle"
    /\ retrieved' = NoResponse
    /\ response' = 0
    /\ UNCHANGED <<stockPipe, requirements, calls, pieces, i, bins, binRemainingLengths,
                   binSegments, stopped, patterns, metrics, runs, storage, job, body>>
    /\ UNCHANGED <<handlers, users, stripe, handled>>

\* the patterns of a job as GET /api/jobs/:id rebuilds them from the rows
RetrievedPatterns(st, jobId) ==
    LET rows == getCuttingPatternsByJobId(st, jobId)
    IN  [index \in 1..Len(rows) |->
            LET segments == getCuttingSegmentsByPatternId(st, rows[index].id)
            IN  [stockPipeIndex |-> rows[index].stockPipeIndex,
                 efficiency |-> rows[index].efficiency,
                 waste |-> rows[index].waste,
                 segments |-> [n \in 1..Len(segments) |->
                                  [length |-> segments[n].length,
                                   position |-> segments[n].position,
                                   isWaste |-> DecodeIsWaste(segments[n].isWaste)]]]]

\* GET /api/jobs/:id while no optimization request is being served
GetJob ==
    /\ pc = "done"
    /\ retrieved = NoResponse
    /\ \E jobId \in 1..storage.currentJobId :
          LET found == RowsWithId(storage.jobs, jobId)
          IN  IF found = {}
              THEN retrieved' = [status |-> 404, jobId |-> jobId]
              ELSE LET jb == CHOOSE r \in found : TRUE
                       pipes == RowsWithId(storage.stockPipes, jb.stockPipeId)
                   IN  IF pipes = {}
                       THEN retrieved' = [status |-> 404, jobId |-> jobId]
                       ELSE LET pipe == CHOOSE r \in pipes : TRUE
                                optimizationPatterns == RetrievedPatterns(storage, jobId)
                            IN  retrieved' =
                                    [status |-> 200,
                                     jobId |-> jobId,
                                     optimizationPatterns |-> optimizationPatterns,
                                     metrics |-> calculateMetrics(pipe, optimizationPatterns)]
    /\ UNCHANGED <<stockPipe, requirements, pc, calls, pieces, i, bins, binRemainingLengths,
                   binSegments, stopped, patterns, metrics, runs, storage, job, body,
                   response>>
    /\ UNCHANGED <<handlers, users, stripe, handled>>

Next ==
    \/ CreateJob
    \/ RejectRequest
    \/ Start
    \/ PlaceInBin
    \/ OpenNewBin
    \/ CannotPlace
    \/ Finalize
    \/ StoreEntities
    \/ CalculateMetrics
    \/ GetJob
    \/ NextRequest

Spec == Init /\ [][Next]_vars

\* ---- calculateMetrics on any list of patterns ----------------------------
\* a pattern as read back from storage: only its waste matters to the metrics
StoredPattern(sp, k, w) ==
    [stockPipeIndex |-> k,
     efficiency |-> Times(Divide(sp.length - w, sp.length), 100),
     waste |-> w,
     segments |-> <<>>]

WasteValues == (-1)..MaxStockLength

WasteLists == UNION {[1..n -> WasteValues] : n \in 0..MaxPatterns}

MetricsInit ==
    /\ stockPipe \in StockPipes
    /\ \E ws \in WasteLists :
          patterns = [k \in 1..Len(ws) |-> StoredPattern(stockPipe, k, ws[k])]
    /\ requirements = <<>>
    /\ pc = "stored"
    /\ calls = 0
    /\ pieces = <<>>
    /\ i = 0
    /\ bins = <<>>
    /\ binRemainingLengths = <<>>
    /\ binSegments = <<>>
    /\ stopped = FALSE
    /\ metrics = [efficiency |-> Zero, stockUsed |-> 0, stockTotal |-> 0, wasteTotal |-> 0]
    /\ runs = <<>>
    /\ storage = EmptyStorage
    /\ job = NoJob
    /\ retrieved = NoResponse
    /\ body = <<>>
    /\ response = 0
    /\ handlers = <<>>
    /\ users = <<>>
    /\ stripe = NoStripe
    /\ handled = {}

MetricsNext == CalculateMetrics

MetricsSpec == MetricsInit /\ [][MetricsNext]_vars

\* ---- optimize on rearranged requirements ----------------------------------
\* the number of pieces of length l that a requirement list asks for
RECURSIVE QuantityOf(_, _, _)
QuantityOf(reqs, k, l) ==
    IF k = 0 THEN 0
    ELSE (IF reqs[k].length = l THEN reqs[k].quantity ELSE 0) + QuantityOf(reqs, k - 1, l)

\* the two lists ask for the same pieces
SamePieces(a, b) ==
    \A l \in 1..MaxPieceLength : QuantityOf(a, Len(a), l) = QuantityOf(b, Len(b), l)

\* one list for every multiset of pieces: lengths strictly decreasing
MergedRequirementLists ==
    {reqs \in RequirementLists :
        \A a, b \in 1..Len(reqs) : a < b => reqs[a].length > reqs[b].length}

\* every list that permutes, splits or merges the requirements of reqs
Rearrangements(reqs) == {other \in RequirementLists : SamePieces(reqs, other)}

\* optimize is about to be called on any stock and any multiset of pieces
ArrangeInit ==
    /\ stockPipe \in StockPipes
    /\ requirements \in MergedRequirementLists
    /\ pc = "created"
    /\ calls = 0
    /\ pieces = <<>>
    /\ i = 0
    /\ bins = <<>>
    /\ binRemainingLengths = <<>>
    /\ binSegments = <<>>
    /\ stopped = FALSE
    /\ patterns = <<>>
    /\ metrics = [efficiency |-> Zero, stockUsed |-> 0, stockTotal |-> 0, wasteTotal |-> 0]
    /\ runs = <<>>
    /\ storage = EmptyStorage
    /\ job = NoJob
    /\ retrieved = NoResponse
    /\ body = <<>>
    /\ response = 0
    /\ handlers = <<>>
    /\ users = <<>>
    /\ stripe = NoStripe
    /\ handled = {}

\* after the first invocation optimize is called again, on the same stock and
\* on any rearrangement of the same pieces
Rearrange ==
    /\ pc = "returned"
    /\ Len(runs) = 1
    /\ requirements' \in Rearrangements(requirements)
    /\ pc' = "created"
    /\ UNCHANGED <<stockPipe, calls, pieces, i, bins, binRemainingLengths,
                   binSegments, stopped, patterns, metrics, runs, storage, job, retrieved,
                   body, response>>
    /\ UNCHANGED <<handlers, users, stripe, handled>>

ArrangeNext ==
    \/ Start
    \/ PlaceInBin
    \/ OpenNewBin
    \/ CannotPlace
    \/ Finalize
    \/ Rearrange

ArrangeSpec == ArrangeInit /\ [][ArrangeNext]_vars

\* ---- POST /api/optimize: two requests storing their entities ---------------
\* each await of the loops that store patterns and segments is a step, and the
\* steps of the two requests interleave
HandlerIds == 1..2

PatternSegmentsNotRemapped(entities, k, patternId) ==
    LET OfPattern(s) == s.patternId = k
    IN  SelectSeq(entities.segments, OfPattern)

\* entities.segments.filter(s => s.patternId === i + 1)
\*                  .map(s => ({ ...s, patternId: pattern.id }))
PatternSegments(entities, k, patternId) ==
    LET OfPattern(s) == s.patternId = k
        own == SelectSeq(entities.segments, OfPattern)
    IN  [n \in 1..Len(own) |-> [own[n] EXCEPT !.patternId = patternId]]

\* a bar filled by one piece
FullBar(k) ==
    [stockPipeIndex |-> k,
     efficiency |-> Divide(100, 1),
     waste |-> 0,
     segments |-> <<[length |-> MaxStockLength, position |-> 0, isWaste |-> FALSE]>>]

\* a bar with a piece one unit shorter than the bar and the waste after it
BarWithWaste(k) ==
    [stockPipeIndex |-> k,
     efficiency |-> Times(Divide(MaxStockLength - 1, MaxStockLength), 100),
     waste |-> 1,
     segments |-> <<[length |-> MaxStockLength - 1, position |-> 0, isWaste |-> FALSE],
                    [length |-> 1, position |-> MaxStockLength - 1, isWaste |-> TRUE]>>]

\* results of optimize: up to count bars, the last one with or without waste
ReturnedPatternLists ==
    {[k \in 1..n |-> IF k = n /\ withWaste THEN BarWithWaste(k) ELSE FullBar(k)] :
        n \in 1..MaxStockCount, withWaste \in BOOLEAN}

\* the storage after the stock pipes and the jobs of n requests were created
RECURSIVE StorageWithJobs(_)
StorageWithJobs(n) ==
    IF n = 0 THEN EmptyStorage
    ELSE LET st == StorageWithJobs(n - 1)
         IN  createJob(createStockPipe(st, [length |-> MaxStockLength,
                                            kerfWidth |-> 0,
                                            count |-> MaxStockCount]),
                       [stockPipeId |-> st.currentStockPipeId])

\* a request whose optimize has returned pats and that is about to store them
Handler(p, pats) ==
    [job |-> [id |-> p, stockPipeId |-> p],
     patterns |-> pats,
     entities |-> createEntities([id |-> p, stockPipeId |-> p], pats),
     pc |-> "pattern",
     i |-> 0,
     pattern |-> 0,
     patternSegments |-> <<>>,
     n |-> 0]

StoreInit ==
    /\ stockPipe = [length |-> MaxStockLength, kerfWidth |-> 0, count |-> MaxStockCount]
    /\ requirements = <<>>
    /\ pc = "returned"
    /\ calls = 0
    /\ pieces = <<>>
    /\ i = 0
    /\ bins = <<>>
    /\ binRemainingLengths = <<>>
    /\ binSegments = <<>>
    /\ stopped = FALSE
    /\ patterns = <<>>
    /\ metrics = [efficiency |-> Zero, stockUsed |-> 0, stockTotal |-> 0, wasteTotal |-> 0]
    /\ runs = <<>>
    /\ storage = StorageWithJobs(Cardinality(HandlerIds))
    /\ job = NoJob
    /\ retrieved = NoResponse
    /\ body = <<>>
    /\ response = 0
    /\ \E lists \in [HandlerIds -> ReturnedPatternLists] :
          handlers = [p \in HandlerIds |-> Handler(p, lists[p])]
    /\ users = <<>>
    /\ stripe = NoStripe
    /\ handled = {}

\* the handler after the await of its last call returned: the loops go on to
\* the next segment, the next pattern or the end without another await
Advance(h) ==
    IF h.n < Len(h.patternSegments) THEN [h EXCEPT !.pc = "segment"]
    ELSE IF h.i + 1 < Len(h.entities.patterns)
         THEN [h EXCEPT !.pc = "pattern", !.i = h.i + 1]
         ELSE [h EXCEPT !.pc = "done", !.i = h.i + 1]

\* await storage.createCuttingPattern(entities.patterns[i])
HandlerCreatePattern(p) ==
    LET h == handlers[p]
        patternId == storage.currentCuttingPatternId
    IN  /\ h.pc = "pattern"
        /\ h.i < Len(h.entities.patterns)
        /\ storage' = createCuttingPattern(storage, h.entities.patterns[h.i + 1])
        /\ handlers' =
              [handlers EXCEPT ![p] =
                  Advance([h EXCEPT !.pattern = patternId,
                                    !.patternSegments =
                                        PatternSegments(h.entities, h.i + 1, patternId),
                                    !.n = 0])]
        /\ UNCHANGED <<stockPipe, requirements, pc, calls, pieces, i, bins,
                       binRemainingLengths, binSegments, stopped, patterns, metrics, runs,
                       job, retrieved, body, response, users, stripe, handled>>

\* await storage.createCuttingSegment(segment)
HandlerCreateSegment(p) ==
    LET h == handlers[p]
    IN  /\ h.pc = "segment"
        /\ storage' = createCuttingSegment(storage, h.patternSegments[h.n + 1])
        /\ handlers' = [handlers EXCEPT ![p] = Advance([h EXCEPT !.n = h.n + 1])]
        /\ UNCHANGED <<stockPipe, requirements, pc, calls, pieces, i, bins,
                       binRemainingLengths, binSegments, stopped, patterns, metrics, runs,
                       job, retrieved, body, response, users, stripe, handled>>

StoreNext ==
    \E p \in HandlerIds :
        \/ HandlerCreatePattern(p)
        \/ HandlerCreateSegment(p)

StoreSpec == StoreInit /\ [][StoreNext]_vars

\* ---- subscriptions ----------------------------------------------------------
\* a user row as the users table creates it: no Stripe ids (0), status inactive
NewUser == [stripeCustomerId |-> 0, stripeSubscriptionId |-> 0,
            subscriptionStatus |-> "inactive"]

updateStripeCustomerId(us, userId, customerId) ==
    [us EXCEPT ![userId].stripeCustomerId = customerId]

updateUserStripeInfo(us, userId, info) ==
    [us EXCEPT ![userId] = [stripeCustomerId |-> info.stripeCustomerId,
                            stripeSubscriptionId |-> info.stripeSubscriptionId,
                            subscriptionStatus |-> "active"]]

\* the first branch of hasActiveSubscription
hasActiveSubscription(user) == user.subscriptionStatus = "active"

SubscriptionInit ==
    /\ stockPipe = [length |-> MaxStockLength, kerfWidth |-> 0, count |-> MaxStockCount]
    /\ requirements = <<>>
    /\ pc = "idle"
    /\ calls = 0
    /\ pieces = <<>>
    /\ i = 0
    /\ bins = <<>>
    /\ binRemainingLengths = <<>>
    /\ binSegments = <<>>
    /\ stopped = FALSE
    /\ patterns = <<>>
    /\ metrics = [efficiency |-> Zero, stockUsed |-> 0, stockTotal |-> 0, wasteTotal |-> 0]
    /\ runs = <<>>
    /\ storage = EmptyStorage
    /\ job = NoJob
    /\ retrieved = NoResponse
    /\ body = <<>>
    /\ response = 0
    /\ handlers = <<>>
    /\ users = [u \in 1..MaxUsers |-> NewUser]
    /\ stripe = NoStripe
    /\ handled = {}

\* POST /api/create-subscription by user u for an existing plan: a Stripe
\* customer is created when the user has none, the subscription is created
\* with its payment incomplete, and the user row is updated
CreateSubscription(u) ==
    /\ Len(stripe.subscriptions) < MaxSubscriptions
    /\ LET hasCustomer == users[u].stripeCustomerId # 0
           customerId == IF hasCustomer THEN users[u].stripeCustomerId
                         ELSE Len(stripe.customers) + 1
           subscriptionId == Len(stripe.subscriptions) + 1
           us1 == IF hasCustomer THEN users ELSE updateStripeCustomerId(users, u, customerId)
       IN  /\ stripe' =
                 [stripe EXCEPT
                     !.customers = IF hasCustomer THEN @ ELSE Append(@, [userId |-> u]),
                     !.subscriptions = Append(@, [customer |-> customerId,
                                                  status |-> "incomplete"])]
           /\ users' = updateUserStripeInfo(us1, u, [stripeCustomerId |-> customerId,
                                                     stripeSubscriptionId |-> subscriptionId])
    /\ UNCHANGED <<stockPipe, requirements, pc, calls, pieces, i, bins,
                   binRemainingLengths, binSegments, stopped, patterns, metrics, runs,
                   storage, job, retrieved, body, response, handlers, handled>>

\* Stripe: the invoice of subscription s is paid and the event is sent
PaymentSucceeds(s) ==
    /\ stripe.subscriptions[s].status = "incomplete"
    /\ stripe' = [stripe EXCEPT
                     !.subscriptions[s].status = "active",
                     !.events = @ \cup {[type |-> "invoice.payment_succeeded",
                                         subscription |-> s]}]
    /\ UNCHANGED <<stockPipe, requirements, pc, calls, pieces, i, bins,
                   binRemainingLengths, binSegments, stopped, patterns, metrics, runs,
                   storage, job, retrieved, body, response, handlers, users, handled>>

\* Stripe: subscription s is deleted and the event is sent
SubscriptionDeleted(s) ==
    /\ stripe.subscriptions[s].status # "canceled"
    /\ stripe' = [stripe EXCEPT
                     !.subscriptions[s].status = "canceled",
                     !.events = @ \cup {[type |-> "customer.subscription.deleted",
                                         subscription |-> s]}]
    /\ UNCHANGED <<stockPipe, requirements, pc, calls, pieces, i, bins,
                   binRemainingLengths, binSegments, stopped, patterns, metrics, runs,
                   storage, job, retrieved, body, response, handlers, users, handled>>

\* findUserByStripeCustomerId: the users with that customer id
UsersByStripeCustomerId(us, customerId) ==
    {u \in DOMAIN us : us[u].stripeCustomerId = customerId}

\* POST /api/webhook for an event Stripe has sent
Webhook(event) ==
    /\ event \in stripe.events
    /\ LET subscription == stripe.subscriptions[event.subscription]
           found == UsersByStripeCustomerId(users, subscription.customer)
       IN  IF found = {}
           THEN users' = users
           ELSE LET u == CHOOSE x \in found : TRUE
                IN  IF event.type = "invoice.payment_succeeded"
                    THEN users' = updateUserStripeInfo(
                                      users, u,
                                      [stripeCustomerId |-> subscription.customer,
                                       stripeSubscriptionId |-> event.subscription])
                    ELSE users' = [users EXCEPT ![u].subscriptionStatus = "inactive"]
    /\ stripe' = [stripe EXCEPT !.events = @ \ {event}]
    /\ handled' = handled \cup {event}
    /\ UNCHANGED <<stockPipe, requirements, pc, calls, pieces, i, bins,
                   binRemainingLengths, binSegments, stopped, patterns, metrics, runs,
                   storage, job, retrieved, body, response, handlers>>

SubscriptionNext ==
    \/ \E u \in DOMAIN users : CreateSubscription(u)
    \/ \E s \in 1..Len(stripe.subscriptions) : PaymentSucceeds(s)
    \/ \E s \in 1..Len(stripe.subscriptions) : SubscriptionDeleted(s)
    \/ \E event \in stripe.events : Webhook(event)

SubscriptionSpec == SubscriptionInit /\ [][SubscriptionNext]_vars

\* ---- properties -----------------------------------------------------------
\* optimize has returned and patterns is its result for the current input
Returned == pc \in {"returned", "stored", "done"}

\* the preconditions the optimizer states for its input
Preconditions ==
    /\ stockPipe.length > 0
    /\ stockPipe.count >= 1
    /\ \A r \in 1..Len(requirements) :
          requirements[r].length > 0 /\ requirements[r].quantity >= 1

\* the non-waste segments of a pattern list, as <<pattern, segment>> indices
NonWasteSegments(pats) ==
    UNION {{<<k, s>> : s \in {x \in 1..Len(pats[k].segments) : ~pats[k].segments[x].isWaste}} :
              k \in 1..Len(pats)}

PlacedCount(pats, l) ==
    Cardinality({ks \in NonWasteSegments(pats) : pats[ks[1]].segments[ks[2]].length = l})

\* the copies requested, as <<requirement, copy>> indices
RequestedPieces(reqs) ==
    UNION {{<<r, c>> : c \in 1..reqs[r].quantity} : r \in 1..Len(reqs)}

RequestedCount(reqs, l) ==
    Cardinality({rc \in RequestedPieces(reqs) : reqs[rc[1]].length = l})

TotalQuantity(reqs) == Cardinality(RequestedPieces(reqs))

PieceLengths(reqs, pats) ==
    {reqs[r].length : r \in 1..Len(reqs)}
        \cup {pats[ks[1]].segments[ks[2]].length : ks \in NonWasteSegments(pats)}

AtLeast(q, n) == q.den > 0 /\ q.num >= n * q.den

AtMost(q, n) == q.den > 0 /\ q.num <= n * q.den

\* C1: at every step of optimize and in its result there are at most
\* stock.count bins, and so at most stock.count patterns
CapacityBound ==
    /\ Len(bins) <= stockPipe.count
    /\ Len(patterns) <= stockPipe.count

CapacityBoundWitness ==
    /\ pc = "returned" /\ stopped
    /\ stockPipe.count >= 2
    /\ Len(patterns) = stockPipe.count

\* C2: when the warn/break branch was not taken, the non-waste segments of
\* the result have, length by length, the multiplicities of the expanded
\* requirements
Conservation ==
    (Returned /\ ~stopped) =>
        \A l \in PieceLengths(requirements, patterns) :
            PlacedCount(patterns, l) = RequestedCount(requirements, l)

ConservationWitness ==
    /\ pc = "returned" /\ ~stopped
    /\ Len(patterns) >= 2
    /\ Len(requirements) = 2
    /\ requirements[1].length # requirements[2].length
    /\ requirements[1].quantity = 2
    /\ PlacedCount(patterns, requirements[1].length) = 2

\* C3 (as claimed): for an input that meets the preconditions every pattern
\* has waste >= 0 and an efficiency within [0, 100]
NonNegativity ==
    (Returned /\ Preconditions) =>
        \A k \in 1..Len(patterns) :
            /\ patterns[k].waste >= 0
            /\ AtLeast(patterns[k].efficiency, 0)
            /\ AtMost(patterns[k].efficiency, 100)

\* C4: a waste segment is the last segment of its pattern and ends at the
\* end of the bar
WastePlacement ==
    Returned =>
        \A k \in 1..Len(patterns) :
            \A s \in 1..Len(patterns[k].segments) :
                patterns[k].segments[s].isWaste =>
                    /\ s = Len(patterns[k].segments)
                    /\ patterns[k].segments[s].position + patterns[k].segments[s].length
                          = stockPipe.length

WastePlacementWitness ==
    /\ pc = "returned"
    /\ kerfWidthMeters > 0
    /\ \E k \in 1..Len(patterns) :
          /\ Len(patterns[k].segments) >= 3
          /\ patterns[k].segments[Len(patterns[k].segments)].isWaste

\* C5 (as claimed): a single piece longer than the bar gives no pattern and
\* no segment
OversizePieceUnplaced ==
    (/\ Returned
     /\ stockPipe.count >= 1
     /\ Len(requirements) = 1
     /\ requirements[1].quantity = 1
     /\ requirements[1].length > stockPipe.length) =>
        /\ Len(patterns) = 0
        /\ NonWasteSegments(patterns) = {}

\* C6 (as claimed): the metrics of the empty pattern list that optimize
\* returns for a valid stock have a finite efficiency
DegenerateAggregation ==
    (pc = "done" /\ Preconditions /\ Len(patterns) = 0) => IsFinite(metrics.efficiency)

SoftFailureResult ==
    Preconditions =>
        /\ pc # "threw"
        /\ Returned =>
              /\ Cardinality(NonWasteSegments(patterns)) < TotalQuantity(requirements)
                    <=> stopped
              /\ ~stopped =>
                    Cardinality(NonWasteSegments(patterns)) = TotalQuantity(requirements)

\* the steps of one invocation of optimize
OptimizeStep == PlaceInBin \/ OpenNewBin \/ CannotPlace \/ Finalize

\* the iterations the outer loop of optimize may still make
IterationsLeft == IF stopped THEN 0 ELSE Len(pieces) - i + 1

\* C7: for an input that meets the preconditions optimize does not throw and
\* runs to its return (while it loops a step is always possible, and every
\* step either returns or leaves fewer iterations), and the result has fewer
\* non-waste segments than pieces were requested exactly when the warn/break
\* branch was taken, and as many otherwise
SoftFailure ==
    /\ []SoftFailureResult
    /\ []((pc = "loop" /\ Preconditions) => (ENABLED OptimizeStep /\ IterationsLeft >= 0))
    /\ [][(pc = "loop" /\ Preconditions) =>
             (pc' = "returned" \/ (pc' = "loop" /\ IterationsLeft' < IterationsLeft))]_vars

SoftFailureWitness ==
    /\ pc = "returned" /\ stopped /\ Preconditions
    /\ Cardinality(NonWasteSegments(patterns)) >= 2
    /\ Cardinality(NonWasteSegments(patterns)) < TotalQuantity(requirements)

\* C8: two invocations with equal inputs return equal pattern lists, whatever
\* was invoked before
Determinism ==
    \A a, b \in 1..Len(runs) :
        (runs[a].stockPipe = runs[b].stockPipe
            /\ runs[a].requirements = runs[b].requirements)
        => runs[a].patterns = runs[b].patterns

DeterminismWitness ==
    /\ Len(runs) = 2
    /\ runs[1].requirements = runs[2].requirements
    /\ Len(runs[2].patterns) >= 2

RECURSIVE SumOfWaste(_, _)
SumOfWaste(pats, k) == IF k = 0 THEN 0 ELSE pats[k].waste + SumOfWaste(pats, k - 1)

\* C9: for a non-empty pattern list wasteTotal is the sum of the patterns'
\* waste and stockUsed is the number of patterns
MetricsConsistency ==
    (pc = "done" /\ Len(patterns) > 0) =>
        /\ metrics.wasteTotal = SumOfWaste(patterns, Len(patterns))
        /\ metrics.stockUsed = Len(patterns)

MetricsConsistencyWitness ==
    /\ pc = "done"
    /\ Len(patterns) >= 2
    /\ patterns[1].waste > 0
    /\ patterns[2].waste > 0
    /\ metrics.wasteTotal > patterns[2].waste

\* C10: the metrics of optimize's result, for the same stock, have
\* stockUsed <= stockTotal = stock.count
StockUsedWithinTotal ==
    pc = "done" =>
        /\ metrics.stockTotal = stockPipe.count
        /\ metrics.stockUsed <= metrics.stockTotal

StockUsedWithinTotalWitness ==
    /\ pc = "done" /\ stopped
    /\ metrics.stockUsed = metrics.stockTotal
    /\ metrics.stockUsed >= 2

\* C11: for a non-empty pattern list the efficiency of the metrics is
\* (sum of (stock.length - waste)) / (number of patterns * stock.length) * 100,
\* which is 100 when no pattern has waste; stockTotal is stock.count
OverallEfficiency ==
    (pc = "done" /\ Len(patterns) > 0) =>
        /\ metrics.efficiency =
              Divide(100 * (Len(patterns) * stockPipe.length
                               - SumOfWaste(patterns, Len(patterns))),
                     Len(patterns) * stockPipe.length)
        /\ (\A k \in 1..Len(patterns) : patterns[k].waste = 0)
              => metrics.efficiency = Divide(100, 1)
        /\ metrics.stockUsed = Len(patterns)
        /\ metrics.stockTotal = stockPipe.count

\* three full bars, as in the scenario of three 4 m pieces on 4 m bars
OverallEfficiencyWitness ==
    /\ pc = "done"
    /\ Len(patterns) = 3
    /\ \A k \in 1..Len(patterns) : patterns[k].waste = 0
    /\ metrics.efficiency = Divide(100, 1)
    /\ metrics.wasteTotal = 0
    /\ metrics.stockUsed = 3
    /\ metrics.stockUsed # metrics.stockTotal

\* C12 (as claimed): in every pattern each segment begins exactly where the
\* previous one ends, and positions do not decrease
ContiguousLayout ==
    Returned =>
        \A k \in 1..Len(patterns) :
            \A s \in 2..Len(patterns[k].segments) :
                /\ patterns[k].segments[s].position
                      = patterns[k].segments[s - 1].position
                           + patterns[k].segments[s - 1].length
                /\ patterns[k].segments[s].position >= patterns[k].segments[s - 1].position

\* C12 (amended): positions do not decrease; a piece begins one kerf width
\* after the end of the previous piece, and the waste segment begins exactly
\* where the last piece ends
LayoutWithKerf ==
    Returned =>
        \A k \in 1..Len(patterns) :
            \A s \in 2..Len(patterns[k].segments) :
                /\ patterns[k].segments[s].position
                      = patterns[k].segments[s - 1].position
                           + patterns[k].segments[s - 1].length
                           + (IF patterns[k].segments[s].isWaste THEN 0 ELSE kerfWidthMeters)
                /\ patterns[k].segments[s].position >= patterns[k].segments[s - 1].position

LayoutWithKerfWitness ==
    /\ pc = "returned"
    /\ kerfWidthMeters > 0
    /\ \E k \in 1..Len(patterns) :
          /\ Len(patterns[k].segments) >= 3
          /\ ~patterns[k].segments[2].isWaste
          /\ patterns[k].segments[3].isWaste
          /\ patterns[k].segments[2].position > patterns[k].segments[1].length

\* the sum of the lengths of the first n segments of segs that are not waste
RECURSIVE NonWasteLength(_, _)
NonWasteLength(segs, n) ==
    IF n = 0 THEN 0
    ELSE (IF segs[n].isWaste THEN 0 ELSE segs[n].length) + NonWasteLength(segs, n - 1)

\* C13 (as claimed): the efficiency of a pattern is the sum of the lengths of
\* its non-waste segments over the bar length, as a percentage
EfficiencyIsPieceFraction ==
    Returned =>
        \A k \in 1..Len(patterns) :
            patterns[k].efficiency =
                Divide(100 * NonWasteLength(patterns[k].segments, Len(patterns[k].segments)),
                       stockPipe.length)

\* C14: isWaste is stored as 1 for true and 0 for false, and every segment
\* read back through GET /api/jobs/:id has the isWaste, the length and the
\* position that optimize gave it
IsWasteRoundTrip ==
    /\ \A n \in 1..Len(storage.cuttingSegments) :
          storage.cuttingSegments[n].isWaste \in {0, 1}
    /\ retrieved.status = 200 =>
          /\ Len(retrieved.optimizationPatterns) = Len(runs[retrieved.jobId].patterns)
          /\ \A k \in 1..Len(retrieved.optimizationPatterns) :
                retrieved.optimizationPatterns[k].segments
                    = runs[retrieved.jobId].patterns[k].segments

\* the second job is read back, with a piece and a waste segment in a bar
IsWasteRoundTripWitness ==
    /\ retrieved.status = 200
    /\ retrieved.jobId = 2
    /\ \E k \in 1..Len(retrieved.optimizationPatterns) :
          LET segments == retrieved.optimizationPatterns[k].segments
          IN  /\ Len(segments) >= 2
              /\ ~segments[1].isWaste
              /\ segments[Len(segments)].isWaste

\* C15: a piece goes into an open bin j only when bin j has room for the piece
\* and a kerf and no earlier bin has; a bin is opened only when no open bin has
\* room for the piece and a kerf and fewer than count bins are open
FirstFitRule ==
    [][(pc = "loop" /\ pc' = "loop") =>
          /\ \A j \in 1..Len(bins) :
                Len(bins'[j]) > Len(bins[j]) =>
                    /\ binRemainingLengths[j] >= pieces[i + 1] + kerfWidthMeters
                    /\ \A k \in 1..(j - 1) :
                          binRemainingLengths[k] < pieces[i + 1] + kerfWidthMeters
          /\ Len(bins') > Len(bins) =>
                /\ \A j \in 1..Len(bins) :
                      binRemainingLengths[j] < pieces[i + 1] + kerfWidthMeters
                /\ Len(bins) < stockPipe.count]_vars

\* the second bin took a second piece that the first bin had no room for
FirstFitRuleWitness ==
    /\ pc = "loop"
    /\ Len(bins) = 2
    /\ Len(bins[2]) = 2
    /\ binRemainingLengths[1] > 0
    /\ binRemainingLengths[1] < bins[2][2] + kerfWidthMeters

\* the next piece has no open bin with room for it and no bin may be opened
Unplaceable ==
    /\ pc = "loop" /\ ~stopped /\ i < Len(pieces)
    /\ \A j \in 1..Len(bins) : binRemainingLengths[j] < pieces[i + 1] + kerfWidthMeters
    /\ Len(bins) >= stockPipe.count

\* C16: when a piece cannot be placed the loop is broken off: from then on the
\* bins, their remaining lengths and their segments stay as they are and the
\* next step returns, so that only the pieces sorted before the unplaceable
\* one are in the result
ShortCircuit ==
    /\ [][Unplaceable =>
             (stopped' /\ UNCHANGED <<i, bins, binRemainingLengths, binSegments>>)]_vars
    /\ [][(pc = "loop" /\ stopped) =>
             (pc' \in {"returned", "threw"}
                 /\ UNCHANGED <<i, bins, binRemainingLengths, binSegments>>)]_vars
    /\ []((Returned /\ stopped) =>
             /\ i < Len(pieces)
             /\ Cardinality(NonWasteSegments(patterns)) = i
             /\ \A k \in 1..Len(patterns) :
                   SubSeq(patterns[k].segments, 1, Len(binSegments[k])) = binSegments[k])

\* the loop was broken off although a later piece had room in an open bin
ShortCircuitWitness ==
    /\ pc = "returned" /\ stopped
    /\ \E m \in (i + 2)..Len(pieces) : \E j \in 1..Len(bins) :
          binRemainingLengths[j] >= pieces[m] + kerfWidthMeters

\* the sum of the first n lengths of a bin
RECURSIVE SumOfPieces(_, _)
SumOfPieces(bin, n) == IF n = 0 THEN 0 ELSE bin[n] + SumOfPieces(bin, n - 1)

\* the number of pieces in a list of segments
PieceCount(segments) == Cardinality({s \in 1..Len(segments) : ~segments[s].isWaste})

\* C17: at every step the remaining length of an open bin is the stock length
\* less its pieces and less one kerf for each piece but the first, and in a
\* returned pattern pieces, kerfs and waste add up to the stock length
PerBarAccounting ==
    /\ pc \in {"loop", "returned"} =>
          \A j \in 1..Len(bins) :
              /\ Len(bins[j]) >= 1
              /\ binRemainingLengths[j] =
                    stockPipe.length - SumOfPieces(bins[j], Len(bins[j]))
                        - (Len(bins[j]) - 1) * kerfWidthMeters
    /\ Returned =>
          \A k \in 1..Len(patterns) :
              NonWasteLength(patterns[k].segments, Len(patterns[k].segments))
                  + (PieceCount(patterns[k].segments) - 1) * kerfWidthMeters
                  + patterns[k].waste
              = stockPipe.length

\* a returned bar with two pieces, a kerf between them and waste after them
PerBarAccountingWitness ==
    /\ pc = "returned"
    /\ kerfWidthMeters > 0
    /\ \E k \in 1..Len(patterns) :
          /\ PieceCount(patterns[k].segments) >= 2
          /\ patterns[k].waste > 0

\* C18: the first segment of a bar is at position 0; a piece placed into an
\* open bin is at the stock length less the bin's remaining length before the
\* placement, plus a kerf, which is the end of the segment before it plus a
\* kerf; the placement takes the piece and a kerf off the remaining length
SegmentPositions ==
    /\ [](pc \in {"loop", "returned"} =>
             \A j \in 1..Len(binSegments) : binSegments[j][1].position = 0)
    /\ [](Returned => \A k \in 1..Len(patterns) : patterns[k].segments[1].position = 0)
    /\ [][(pc = "loop" /\ pc' = "loop") =>
             /\ \A j \in 1..Len(binSegments) :
                   Len(binSegments'[j]) > Len(binSegments[j]) =>
                       LET new == binSegments'[j][Len(binSegments'[j])]
                           last == binSegments[j][Len(binSegments[j])]
                       IN  /\ Len(binSegments'[j]) = Len(binSegments[j]) + 1
                           /\ new.length = pieces[i + 1]
                           /\ ~new.isWaste
                           /\ new.position = (stockPipe.length - binRemainingLengths[j])
                                                 + kerfWidthMeters
                           /\ new.position = last.position + last.length + kerfWidthMeters
                           /\ binRemainingLengths'[j] =
                                 binRemainingLengths[j] - (pieces[i + 1] + kerfWidthMeters)
             /\ Len(binSegments') > Len(binSegments) =>
                   /\ binSegments'[Len(binSegments')] =
                         <<[length |-> pieces[i + 1], position |-> 0, isWaste |-> FALSE]>>
                   /\ binRemainingLengths'[Len(binSegments')] =
                         stockPipe.length - pieces[i + 1]]_vars

\* a second bar is open and the first holds two pieces a kerf apart
SegmentPositionsWitness ==
    /\ pc = "loop"
    /\ kerfWidthMeters > 0
    /\ Len(binSegments) = 2
    /\ Len(binSegments[1]) = 2
    /\ binSegments[1][2].position = binSegments[1][1].length + kerfWidthMeters

\* the places of the waste segments in a list of segments
WasteSegments(segments) == {s \in 1..Len(segments) : segments[s].isWaste}

\* C19: a returned pattern has at most one waste segment, and has one exactly
\* when the remaining length of its bin is above zero; the waste segment is
\* the last one, as long as the pattern's waste, and starts where the last
\* piece ends
SingleWasteSegment ==
    Returned =>
        \A k \in 1..Len(patterns) :
            LET segments == patterns[k].segments
            IN  /\ Cardinality(WasteSegments(segments)) <= 1
                /\ Cardinality(WasteSegments(segments)) = 1 <=> binRemainingLengths[k] > 0
                /\ \A s \in WasteSegments(segments) :
                      /\ s = Len(segments)
                      /\ s >= 2
                      /\ ~segments[s - 1].isWaste
                      /\ segments[s].length = patterns[k].waste
                      /\ segments[s].position
                             = segments[s - 1].position + segments[s - 1].length

\* one returned bar is used up and has no waste segment, another has one
SingleWasteSegmentWitness ==
    /\ pc = "returned"
    /\ \E k \in 1..Len(patterns) :
          binRemainingLengths[k] = 0 /\ WasteSegments(patterns[k].segments) = {}
    /\ \E k \in 1..Len(patterns) :
          /\ WasteSegments(patterns[k].segments) # {}
          /\ Len(patterns[k].segments) >= 3

\* C20: the k-th returned pattern has stockPipeIndex k and is built from the
\* k-th bin, and bins are numbered in the order of their creation: a step of
\* the loop leaves every open bin at its index and puts a new bin after them
BarIndexing ==
    /\ [](Returned =>
             /\ Len(patterns) = Len(bins)
             /\ \A k \in 1..Len(patterns) :
                   /\ patterns[k].stockPipeIndex = k
                   /\ patterns[k].waste = binRemainingLengths[k]
                   /\ SubSeq(patterns[k].segments, 1, Len(binSegments[k])) = binSegments[k])
    /\ [][(pc = "loop" /\ pc' = "loop") =>
             /\ Len(bins') \in {Len(bins), Len(bins) + 1}
             /\ Len(binSegments') = Len(bins') /\ Len(binRemainingLengths') = Len(bins')
             /\ \A j \in 1..Len(bins) :
                   /\ SubSeq(bins'[j], 1, Len(bins[j])) = bins[j]
                   /\ SubSeq(binSegments'[j], 1, Len(binSegments[j])) = binSegments[j]]_vars

\* two bars are returned, the one opened first for the longer piece
BarIndexingWitness ==
    /\ pc = "returned"
    /\ Len(patterns) = 2
    /\ patterns[2].stockPipeIndex = 2
    /\ patterns[1].segments[1].length > patterns[2].segments[1].length

\* C21: the pieces are sorted in non-increasing order and attempted one after
\* the other in that order, so in a returned pattern the pieces do not get
\* longer from left to right, and the first pieces of the patterns do not get
\* longer with the stockPipeIndex
DecreasingOrder ==
    /\ [](pc \in {"loop", "returned", "stored", "done"} =>
             \A a, b \in 1..Len(pieces) : a < b => pieces[a] >= pieces[b])
    /\ [][(pc = "loop" /\ pc' = "loop") =>
             (i' \in {i, i + 1} /\ (i' = i => stopped') /\ pieces' = pieces)]_vars
    /\ [](Returned =>
             /\ \A k \in 1..Len(patterns) :
                   \A a, b \in 1..Len(patterns[k].segments) :
                       (a < b /\ ~patterns[k].segments[a].isWaste
                              /\ ~patterns[k].segments[b].isWaste)
                       => patterns[k].segments[a].length >= patterns[k].segments[b].length
             /\ \A k, l \in 1..Len(patterns) :
                   k < l => patterns[k].segments[1].length >= patterns[l].segments[1].length)

\* the requirements came shortest first; two bars are returned, one of them
\* with a longer piece before a shorter one
DecreasingOrderWitness ==
    /\ pc = "returned"
    /\ Len(requirements) >= 2
    /\ requirements[1].length < requirements[2].length
    /\ Len(patterns) = 2
    /\ patterns[1].segments[1].length > patterns[2].segments[1].length
    /\ \E k \in 1..Len(patterns) :
          /\ Len(patterns[k].segments) >= 2
          /\ ~patterns[k].segments[2].isWaste
          /\ patterns[k].segments[1].length > patterns[k].segments[2].length

\* C24: an open bin always holds a piece, so a placement into an open bin is
\* charged a kerf, the finalization finds a last segment in every bin and does
\* not throw, and every returned pattern starts with a piece at position 0
NonEmptyBins ==
    /\ pc \in {"loop", "returned", "stored", "done"} =>
          \A j \in 1..Len(bins) :
              /\ Len(bins[j]) >= 1
              /\ Len(binSegments[j]) = Len(bins[j])
              /\ kerfNeeded(j) = kerfWidthMeters
    /\ pc = "loop" => ~Throws
    /\ pc # "threw"
    /\ Returned =>
          \A k \in 1..Len(patterns) :
              /\ Len(patterns[k].segments) >= 1
              /\ ~patterns[k].segments[1].isWaste
              /\ patterns[k].segments[1].position = 0

\* two bars are returned with a kerf charged in one of them
NonEmptyBinsWitness ==
    /\ pc = "returned"
    /\ kerfWidthMeters > 0
    /\ Len(patterns) = 2
    /\ \E j \in 1..Len(bins) :
          /\ Len(bins[j]) = 2
          /\ binRemainingLengths[j] = stockLength - bins[j][1] - bins[j][2] - kerfWidthMeters

\* C25: in the returned patterns no piece of a later bar would, with its
\* kerf, have fitted into what is left of an earlier bar
FirstFitResidue ==
    Returned =>
        \A a, b \in 1..Len(patterns) :
            a < b =>
                \A s \in 1..Len(patterns[b].segments) :
                    ~patterns[b].segments[s].isWaste =>
                        patterns[a].waste < patterns[b].segments[s].length + kerfWidthMeters

\* a piece is in the second bar only because of its kerf: without the kerf
\* the waste of the first bar would have held it
FirstFitResidueWitness ==
    /\ pc = "returned"
    /\ kerfWidthMeters > 0
    /\ Len(patterns) = 2
    /\ \E s \in 1..Len(patterns[2].segments) :
          /\ ~patterns[2].segments[s].isWaste
          /\ patterns[1].waste >= patterns[2].segments[s].length

\* the number of pieces of length l among the first n of a sequence of lengths
CountIn(seq, n, l) == Cardinality({x \in 1..n : seq[x] = l})

\* C26: the pieces in the returned patterns are, as a multiset, the first k
\* of the sorted pieces, k being the number of pieces placed; every piece left
\* out is at most as long as every piece placed
SortedPrefixPlaced ==
    Returned =>
        LET k == Cardinality(NonWasteSegments(patterns))
        IN  /\ k <= Len(pieces)
            /\ pieces = SortDecreasing(Expand(requirements))
            /\ \A l \in 1..MaxPieceLength : PlacedCount(patterns, l) = CountIn(pieces, k, l)
            /\ \A u \in (k + 1)..Len(pieces) :
                  \A ks \in NonWasteSegments(patterns) :
                      patterns[ks[1]].segments[ks[2]].length >= pieces[u]

\* pieces of two lengths were placed and a piece was left out
SortedPrefixPlacedWitness ==
    /\ pc = "returned"
    /\ Cardinality(NonWasteSegments(patterns)) = 2
    /\ Len(pieces) = 3
    /\ pieces[1] > pieces[2]

\* no requirement is longer than the stock
PiecesWithinStock ==
    \A r \in 1..Len(requirements) :
        requirements[r].length > 0 /\ requirements[r].length <= stockPipe.length

\* C28: when no requirement is longer than the stock, the remaining length of
\* a bin is never negative, and a returned pattern has a waste of at least 0
\* and below the stock length and an efficiency above 0 and at most 100
WithinStockBounds ==
    PiecesWithinStock =>
        /\ pc \in {"loop", "returned", "stored", "done"} =>
              \A j \in 1..Len(binRemainingLengths) : binRemainingLengths[j] >= 0
        /\ Returned =>
              \A k \in 1..Len(patterns) :
                  /\ patterns[k].waste >= 0
                  /\ patterns[k].waste < stockPipe.length
                  /\ IsFinite(patterns[k].efficiency)
                  /\ patterns[k].efficiency.num > 0
                  /\ patterns[k].efficiency.num <= 100 * patterns[k].efficiency.den

\* one bar is used up by two pieces and their kerf, another has waste
WithinStockBoundsWitness ==
    /\ pc = "returned"
    /\ PiecesWithinStock
    /\ kerfWidthMeters > 0
    /\ \E k \in 1..Len(patterns) :
          /\ patterns[k].waste = 0
          /\ patterns[k].efficiency = Divide(100, 1)
          /\ Len(patterns[k].segments) = 2
    /\ \E k \in 1..Len(patterns) : patterns[k].waste > 0

\* C27: two invocations on the same stock whose requirement lists ask for the
\* same pieces, in whatever order and however split into entries, return equal
\* pattern lists
ArrangementInvariance ==
    \A a, b \in 1..Len(runs) :
        (runs[a].stockPipe = runs[b].stockPipe
            /\ SamePieces(runs[a].requirements, runs[b].requirements))
        => runs[a].patterns = runs[b].patterns

\* the second invocation got the pieces in another order and one requirement
\* split in two, and two bars were returned
ArrangementInvarianceWitness ==
    /\ Len(runs) = 2
    /\ Len(runs[2].requirements) > Len(runs[1].requirements)
    /\ runs[2].requirements[1].length # runs[1].requirements[1].length
    /\ Len(runs[2].patterns) = 2

\* the body has a requirement with a length below 0.01 or with a quantity that
\* is not an integer of at least 1
InvalidBody ==
    \E k \in 1..Len(body) :
        \/ body[k].length * 100 < UnitsPerMeter
        \/ body[k].quantity.den # 1
        \/ body[k].quantity.num < 1

\* C22: a request whose body has such a requirement is answered 400; optimize
\* is not called for it and the storage stays as it was
ValidationAtBoundary ==
    /\ [][(pc = "idle" /\ InvalidBody) =>
             /\ response' = 400
             /\ pc' = "rejected"
             /\ storage' = storage
             /\ calls' = calls /\ runs' = runs /\ pieces' = pieces]_vars
    /\ [](InvalidBody =>
             /\ pc \in {"idle", "rejected"}
             /\ storage = EmptyStorage
             /\ calls = 0 /\ runs = <<>>)
    /\ [](pc = "rejected" => (response = 400 /\ InvalidBody))
    /\ [](response = 400 => InvalidBody)

\* a body whose second requirement has the quantity 3/2 was answered 400
ValidationAtBoundaryWitness ==
    /\ pc = "rejected"
    /\ response = 400
    /\ Len(body) = 2
    /\ body[1].length >= 1 /\ body[1].quantity = Divide(1, 1)
    /\ body[2].quantity = Divide(3, 2)
    /\ storage = EmptyStorage

\* a stored segment without its id and its patternId
SegmentOf(row) == [length |-> row.length, position |-> row.position, isWaste |-> row.isWaste]

\* the segments of bar k as createEntities encodes them
EncodedSegments(pats, k) ==
    [s \in 1..Len(pats[k].segments) |->
        [length |-> pats[k].segments[s].length,
         position |-> pats[k].segments[s].position,
         isWaste |-> IF pats[k].segments[s].isWaste THEN 1 ELSE 0]]

\* C23: while two requests store their entities with their awaits interleaved,
\* the patterns a request has stored are found under its job, one for each
\* bar in order, each under an id of its own; the segments read by the id of a
\* stored pattern are the segments of that bar stored so far, in order and
\* once each; and every stored segment belongs to a stored pattern
PatternSegmentLinkage ==
    /\ \A a, b \in 1..Len(storage.cuttingPatterns) :
          a # b => storage.cuttingPatterns[a].id # storage.cuttingPatterns[b].id
    /\ \A n \in 1..Len(storage.cuttingSegments) :
          \E a \in 1..Len(storage.cuttingPatterns) :
              storage.cuttingPatterns[a].id = storage.cuttingSegments[n].patternId
    /\ \A p \in DOMAIN handlers :
          LET h == handlers[p]
              rows == getCuttingPatternsByJobId(storage, h.job.id)
          IN  /\ Len(rows) = (IF h.pc = "segment" THEN h.i + 1 ELSE h.i)
              /\ \A k \in 1..Len(rows) :
                    LET rowsOfPattern == getCuttingSegmentsByPatternId(storage, rows[k].id)
                        read == [n \in 1..Len(rowsOfPattern) |-> SegmentOf(rowsOfPattern[n])]
                        expected == EncodedSegments(h.patterns, k)
                    IN  /\ rows[k].stockPipeIndex = k
                        /\ IF k = h.i + 1
                           THEN read = SubSeq(expected, 1, h.n)
                           ELSE read = expected

\* both requests are through, the second stored a pattern between the two
\* patterns of the first, and a segment of the first request was stored after
\* a segment of the second
PatternSegmentLinkageWitness ==
    /\ \A p \in DOMAIN handlers : handlers[p].pc = "done"
    /\ Len(storage.cuttingPatterns) >= 3
    /\ storage.cuttingPatterns[1].jobId = 1
    /\ storage.cuttingPatterns[2].jobId = 2
    /\ storage.cuttingPatterns[3].jobId = 1
    /\ storage.cuttingSegments[1].patternId = 1
    /\ storage.cuttingSegments[2].patternId = 2
    /\ storage.cuttingSegments[Len(storage.cuttingSegments)].patternId = 3

\* C29 (as claimed): a user passes the hasActiveSubscription check as active
\* only when a webhook event invoice.payment_succeeded for a subscription of
\* the user's Stripe customer has been handled
ActiveOnlyAfterPayment ==
    \A u \in DOMAIN users :
        hasActiveSubscription(users[u]) =>
            \E event \in handled :
                /\ event.type = "invoice.payment_succeeded"
                /\ stripe.subscriptions[event.subscription].customer
                       = users[u].stripeCustomerId

====
